---- MODULE Spec2Model ----
(***************************************************************************)
(* SuccessionAI rule engine: the nine-box segment classifier and the gap   *)
(* scorer, with the gap-analysis rows the employee dashboard renders, the  *)
(* threshold configuration of the AI backend, the Express server's         *)
(* accounts, mentorship requests and route guards, the browser's session   *)
(* and navigation, and the success profiles list.  Each component has its  *)
(* own specification; the variables of the others stay at their idle       *)
(* values.                                                                 *)
(*                                                                         *)
(* Ratings of the classifier are integers in units of 1/10000, so that     *)
(* 3.5 is 35000 and 3.4999 is 34999.  Scores and ratings of the gap rows   *)
(* are integers in units of 1/Unit.                                        *)
(***************************************************************************)
EXTENDS Integers, FiniteSets, Sequences, TLC

VARIABLES
    performance_rating,   \* classifier input (1/10000)
    potential_rating,     \* classifier input (1/10000)
    thresholds,           \* classifier input: RatingThresholds
    segmentation,         \* classifier response, NoResult before the call
    segmentationSwapped,  \* classifier response to the call with the axes swapped
    rowKind,              \* gap row: "score" or "rating"
    employee,             \* gap row: val.employee after Number(.. ?? 0), 1/Unit
    required,             \* gap row: val.required after Number(.. ?? 0), 1/Unit
    row,                  \* gap row as rendered, NoResult before rendering
    rawEmployee,          \* gap row: val.employee as received in the JSON
    rawRequired,          \* gap row: val.required as received in the JSON
    employeeSkills,       \* gap scorer input: the employee's skill set
    requiredSkills,       \* gap scorer input: the role's required skill set
    skillResult,          \* gap scorer skill partition, NoResult before the call
    config,               \* AI backend: the active RatingThresholds object
    installed,            \* AI backend: every threshold set that was ever active
    configReply,          \* AI backend: reply to the last POST /config
    batch,                \* /segment/bulk: the employees of the request
    snapshot,             \* /segment/bulk: thresholds read for the current employee
    batchResults,         \* /segment/bulk: the classifications made so far
    employees,            \* server: the Employee collection, by _id
    acceptOp,             \* server: the acceptMentorship request in progress
    lastResponse,         \* server: the response of the last finished request
    signupOps,            \* server: the signup requests in progress, by client
    httpRequest,          \* router: the request being routed
    chain,                \* router: middleware and handler still to run for it
    reqUser,              \* router: req.user, NoResult while unset
    resStatus,            \* router: status of the response, 0 while none is sent
    invoked,              \* router: the handler that ran and the req.user it saw
    lsToken,              \* browser: localStorage 'token', NoToken while absent
    lsUser,               \* browser: localStorage 'user' parsed, NoResult while absent
    cookieToken,          \* browser: the 'token' cookie, NoToken while absent
    cookieRole,           \* browser: the 'role' cookie, NoRole while absent
    pathname,             \* browser: the path of the page being shown or requested
    target,               \* browser: the path the current navigation asked for
    navPc,                \* browser: how far the current navigation has got
    redirects,            \* browser: redirects of the current navigation so far
    lastClientOp,         \* browser: the last session operation and its argument
    serverProfiles,       \* profiles: number of success profiles on the server
    profiles,             \* profiles: the displayed list
    loading,              \* profiles: the first page has not been answered yet
    loadingMore,          \* profiles: a further page has been asked for
    error,                \* profiles: the error message, "" while none
    page,                 \* profiles: the last page number asked for
    hasMore,              \* profiles: the section expects further pages
    inFlight,             \* profiles: page numbers whose request is unanswered
    mounted,              \* profiles: the section is mounted
    listening,            \* profiles: handleScroll is attached to the container
    scrolls               \* profiles: scrolls to the bottom so far

vars == <<performance_rating, potential_rating, thresholds, segmentation,
          segmentationSwapped,
          rowKind, employee, required, row, rawEmployee, rawRequired,
          employeeSkills, requiredSkills, skillResult,
          config, installed, configReply, batch, snapshot, batchResults,
          employees, acceptOp, lastResponse, signupOps,
          httpRequest, chain, reqUser, resStatus, invoked,
          lsToken, lsUser, cookieToken, cookieRole,
          pathname, target, navPc, redirects, lastClientOp,
          serverProfiles, profiles, loading, loadingMore, error, page, hasMore,
          inFlight, mounted, listening, scrolls>>

classifyVars == <<performance_rating, potential_rating, thresholds, segmentation,
                  segmentationSwapped>>
rowVars == <<rowKind, employee, required, row, rawEmployee, rawRequired>>
skillVars == <<employeeSkills, requiredSkills, skillResult>>
configVars == <<config, installed, configReply, batch, snapshot, batchResults>>
serverVars == <<employees, acceptOp, lastResponse, signupOps>>
httpVars == <<httpRequest, chain, reqUser, resStatus, invoked>>
clientVars == <<lsToken, lsUser, cookieToken, cookieRole,
                pathname, target, navPc, redirects, lastClientOp>>
scrollVars == <<serverProfiles, profiles, loading, loadingMore, error, page, hasMore,
                inFlight, mounted, listening, scrolls>>

\* every variable outside one component
exceptClassify == <<rowVars, skillVars, configVars, serverVars, httpVars,
    clientVars, scrollVars>>
exceptRow == <<classifyVars, skillVars, configVars, serverVars, httpVars,
    clientVars, scrollVars>>
exceptSkills == <<classifyVars, rowVars, configVars, serverVars, httpVars,
    clientVars, scrollVars>>
exceptConfig == <<classifyVars, rowVars, skillVars, serverVars, httpVars,
    clientVars, scrollVars>>
exceptServer == <<classifyVars, rowVars, skillVars, configVars, httpVars,
    clientVars, scrollVars>>
exceptHttp == <<classifyVars, rowVars, skillVars, configVars, serverVars,
    clientVars, scrollVars>>
exceptClient == <<classifyVars, rowVars, skillVars, configVars, serverVars,
    httpVars, scrollVars>>
exceptScroll == <<classifyVars, rowVars, skillVars, configVars, serverVars,
    httpVars, clientVars>>

NoResult == [none |-> TRUE]

\* JSON values as the page receives them
JsNull == [type |-> "null"]
JsUndefined == [type |-> "undefined"]
JsNum(n) == [type |-> "number", value |-> n]
\* a string; numeric tells whether it spells a number, value is that number
JsStr(isNumeric, n) == [type |-> "string", numeric |-> isNumeric, value |-> n]

\* the AI backend's configuration and bulk endpoint, not in use
IdleConfig ==
    /\ config = NoResult
    /\ installed = {}
    /\ configReply = NoResult
    /\ batch = <<>>
    /\ snapshot = NoResult
    /\ batchResults = <<>>

\* the Express server, with no account and no request
IdleServer ==
    /\ employees = <<>>
    /\ acceptOp = NoResult
    /\ lastResponse = NoResult
    /\ signupOps = <<>>

\* the routers, with no request to route
IdleHttp ==
    /\ httpRequest = NoResult
    /\ chain = <<>>
    /\ reqUser = NoResult
    /\ resStatus = 0
    /\ invoked = NoResult

NoToken == "null"
NoRole == "undefined"

\* the browser, with nothing stored and no page requested
IdleClient ==
    /\ lsToken = NoToken
    /\ lsUser = NoResult
    /\ cookieToken = NoToken
    /\ cookieRole = NoRole
    /\ pathname = ""
    /\ target = ""
    /\ navPc = "idle"
    /\ redirects = 0
    /\ lastClientOp = NoResult

\* the success profiles section, not mounted
IdleScroll ==
    /\ serverProfiles = 0
    /\ profiles = <<>>
    /\ loading = TRUE
    /\ loadingMore = FALSE
    /\ error = ""
    /\ page = 1
    /\ hasMore = TRUE
    /\ inFlight = {}
    /\ mounted = FALSE
    /\ listening = FALSE
    /\ scrolls = 0

----------------------------------------------------------------------------
(* Bounds of the model *)

\* classifier ratings range over 0, 0.5, .. MaxRatingHalves / 2
MaxRatingHalves == 10
\* gap values are multiples of 1/Unit
Unit == 2
\* gap values range from Slack units below 0 to Slack units above MaxScore
Slack == 4

----------------------------------------------------------------------------
(* Segment classifier *)

DEFAULT_LOW == 35000
DEFAULT_HIGH == 40000

Levels == {"Low", "Medium", "High"}

\* The table the dashboard draws; an entry models the label
\* "<name> (<potential> Potential, <performance> Performance)".
Seg(n, pot, perf) == [name |-> n, potential |-> pot, performance |-> perf]

SEGMENTS_Transposed ==
    << << Seg("Enigma", "High", "Low"),
          Seg("Inconsistent Player", "Medium", "Low"),
          Seg("Risk Zone", "Low", "Low") >>,
       << Seg("Emerging Talent", "High", "Medium"),
          Seg("Core Contributor", "Medium", "Medium"),
          Seg("Diligent Worker", "Low", "Medium") >>,
       << Seg("Star", "High", "High"),
          Seg("Consistent Performer", "Medium", "High"),
          Seg("Solid Performer", "Low", "High") >> >>

SEGMENTS_Unassigned ==
    << << Seg("Enigma", "High", "Low"),
          Seg("Emerging Talent", "High", "Medium"),
          Seg("Star", "High", "High") >>,
       << Seg("Inconsistent Player", "Medium", "Low"),
          Seg("Core Contributor", "Medium", "Medium"),
          Seg("Consistent Performer", "Medium", "High") >>,
       << Seg("Unassigned", "Low", "Low"),
          Seg("Diligent Worker", "Low", "Medium"),
          Seg("Solid Performer", "Low", "High") >> >>

SEGMENTS ==
    << << Seg("Enigma", "High", "Low"),
          Seg("Emerging Talent", "High", "Medium"),
          Seg("Star", "High", "High") >>,
       << Seg("Inconsistent Player", "Medium", "Low"),
          Seg("Core Contributor", "Medium", "Medium"),
          Seg("Consistent Performer", "Medium", "High") >>,
       << Seg("Risk Zone", "Low", "Low"),
          Seg("Diligent Worker", "Low", "Medium"),
          Seg("Solid Performer", "Low", "High") >> >>

LevelOf_ThresholdBelow(value, low, high) ==
    IF value <= low THEN "Low"
    ELSE IF value <= high THEN "Medium"
    ELSE "High"

\* Band of one axis: value < low -> Low; low <= value < high -> Medium;
\* value >= high -> High.
LevelOf(value, low, high) ==
    IF value < low THEN "Low"
    ELSE IF value < high THEN "Medium"
    ELSE "High"

SegmentRow_LowFirst(potential_level) ==
    CASE potential_level = "Low" -> 1
      [] potential_level = "Medium" -> 2
      [] potential_level = "High" -> 3

\* Row of SEGMENTS for a potential band, column for a performance band.
SegmentRow(potential_level) ==
    CASE potential_level = "High" -> 1
      [] potential_level = "Medium" -> 2
      [] potential_level = "Low" -> 3

SegmentColumn(performance_level) ==
    CASE performance_level = "Low" -> 1
      [] performance_level = "Medium" -> 2
      [] performance_level = "High" -> 3

classify(performance, potential, th) ==
    LET perf == LevelOf(performance, th.performance_low, th.performance_high)
        pot == LevelOf(potential, th.potential_low, th.potential_high)
    IN  [performance_level |-> perf,
         potential_level |-> pot,
         segment_label |-> SEGMENTS[SegmentRow(pot)][SegmentColumn(perf)]]

\* Accepted cut points of one axis: low <= high.
AxisThresholds ==
    { <<DEFAULT_LOW, DEFAULT_HIGH>>, <<30000, 45000>>, <<25000, 25000>> }

ThresholdConfigs ==
    { [performance_low |-> a[1], performance_high |-> a[2],
       potential_low |-> b[1], potential_high |-> b[2]] :
      a \in AxisThresholds, b \in AxisThresholds }

DefaultThresholds ==
    [performance_low |-> DEFAULT_LOW, performance_high |-> DEFAULT_HIGH,
     potential_low |-> DEFAULT_LOW, potential_high |-> DEFAULT_HIGH]

CutPoints == UNION { {a[1], a[2]} : a \in AxisThresholds }

RatingValues ==
    { k * 5000 : k \in 0..MaxRatingHalves }
    \cup { 38000, 42000 }
    \cup { t + d : t \in CutPoints, d \in {-1, 0, 1} }

\* POST /segment/single
SegmentSingle ==
    /\ segmentation = NoResult
    /\ segmentation' = classify(performance_rating, potential_rating, thresholds)
    /\ UNCHANGED <<performance_rating, potential_rating, thresholds,
                   segmentationSwapped>>
    /\ UNCHANGED exceptClassify

\* the thresholds with the cut points of the two axes exchanged
SwapAxes(th) ==
    [performance_low |-> th.potential_low, performance_high |-> th.potential_high,
     potential_low |-> th.performance_low, potential_high |-> th.performance_high]

\* POST /segment/single for the same employee with the two ratings and the
\* two axes' thresholds exchanged
SegmentSwapped ==
    /\ segmentationSwapped = NoResult
    /\ segmentationSwapped' =
            classify(potential_rating, performance_rating, SwapAxes(thresholds))
    /\ UNCHANGED <<performance_rating, potential_rating, thresholds, segmentation>>
    /\ UNCHANGED exceptClassify

IdleRow ==
    /\ rowKind = "score"
    /\ employee = 0
    /\ required = 0
    /\ row = NoResult
    /\ rawEmployee = JsNum(0)
    /\ rawRequired = JsNum(0)

IdleSkills ==
    /\ employeeSkills = {}
    /\ requiredSkills = {}
    /\ skillResult = NoResult

IdleClassify ==
    /\ performance_rating = 0
    /\ potential_rating = 0
    /\ thresholds = DefaultThresholds
    /\ segmentation = NoResult
    /\ segmentationSwapped = NoResult

InitClassify ==
    /\ performance_rating \in RatingValues
    /\ potential_rating \in RatingValues
    /\ thresholds \in ThresholdConfigs
    /\ segmentation = NoResult
    /\ segmentationSwapped = NoResult
    /\ IdleRow
    /\ IdleSkills
    /\ IdleConfig
    /\ IdleServer
    /\ IdleHttp
    /\ IdleClient
    /\ IdleScroll

NextClassify == SegmentSingle \/ SegmentSwapped

SpecClassify == InitClassify /\ [][NextClassify]_vars

----------------------------------------------------------------------------
(* Claims about the segment classifier *)

Classified == segmentation # NoResult

\* The band the three rules of the band assignment give a value, rule by rule.
BandRulesHold(value, low, high, level) ==
    /\ (value < low) => (level = "Low")
    /\ (low <= value /\ value < high) => (level = "Medium")
    /\ (value >= high) => (level = "High")

SegmentNameOf(potential_level, performance_level) ==
    CASE potential_level = "High" /\ performance_level = "Low" -> "Enigma"
      [] potential_level = "High" /\ performance_level = "Medium" -> "Emerging Talent"
      [] potential_level = "High" /\ performance_level = "High" -> "Star"
      [] potential_level = "Medium" /\ performance_level = "Low" -> "Inconsistent Player"
      [] potential_level = "Medium" /\ performance_level = "Medium" -> "Core Contributor"
      [] potential_level = "Medium" /\ performance_level = "High" -> "Consistent Performer"
      [] potential_level = "Low" /\ performance_level = "Low" -> "Risk Zone"
      [] potential_level = "Low" /\ performance_level = "Medium" -> "Diligent Worker"
      [] potential_level = "Low" /\ performance_level = "High" -> "Solid Performer"
      [] OTHER -> "none"

\* C2: for every (potential band, performance band) pair the segment returned
\* is the cell of the fixed 3x3 table, labelled with that very pair of bands;
\* performance 4.2 with potential 3.8 under 3.5 / 4.0 is Consistent Performer
\* and performance 2.0 with potential 2.0 is Risk Zone.
C2_SegmentLookup ==
    Classified =>
        /\ segmentation.segment_label.name =
              SegmentNameOf(segmentation.potential_level,
                            segmentation.performance_level)
        /\ segmentation.segment_label.potential = segmentation.potential_level
        /\ segmentation.segment_label.performance = segmentation.performance_level
        /\ (thresholds = DefaultThresholds) =>
              /\ (performance_rating = 42000 /\ potential_rating = 38000)
                    => (segmentation.segment_label.name = "Consistent Performer")
              /\ (performance_rating = 20000 /\ potential_rating = 20000)
                    => (segmentation.segment_label.name = "Risk Zone")

C2_Witness ==
    /\ Classified
    /\ thresholds = DefaultThresholds
    /\ performance_rating = 42000
    /\ potential_rating = 38000
    /\ segmentation.performance_level = "High"
    /\ segmentation.potential_level = "Medium"
    /\ segmentation.segment_label.name = "Consistent Performer"

NineSegmentNames ==
    { "Enigma", "Emerging Talent", "Star",
      "Inconsistent Player", "Core Contributor", "Consistent Performer",
      "Risk Zone", "Diligent Worker", "Solid Performer" }

\* C3: for every pair of ratings and every accepted threshold configuration
\* the classification is available (no error outcome) and its result carries
\* exactly one of the nine segment labels.
C3_Totality ==
    /\ (~Classified) => ENABLED SegmentSingle
    /\ Classified =>
          /\ segmentation.performance_level \in Levels
          /\ segmentation.potential_level \in Levels
          /\ Cardinality({ n \in NineSegmentNames :
                             n = segmentation.segment_label.name }) = 1

C3_Witness ==
    /\ Classified
    /\ performance_rating = 0
    /\ potential_rating = MaxRatingHalves * 5000
    /\ thresholds.performance_low = thresholds.performance_high
    /\ segmentation.segment_label.name \in NineSegmentNames

\* C18: classifying with the two ratings exchanged and the two axes'
\* thresholds exchanged yields the transposed cell: the segment whose
\* potential band is the band of the performance rating and whose
\* performance band is the band of the potential rating.
C18_Symmetry ==
    (Classified /\ segmentationSwapped # NoResult) =>
        /\ segmentationSwapped.potential_level = segmentation.performance_level
        /\ segmentationSwapped.performance_level = segmentation.potential_level
        /\ segmentationSwapped.segment_label.potential = segmentation.performance_level
        /\ segmentationSwapped.segment_label.performance = segmentation.potential_level
        /\ segmentationSwapped.segment_label.name =
                SegmentNameOf(segmentation.performance_level,
                              segmentation.potential_level)

C18_Witness ==
    /\ Classified
    /\ segmentationSwapped # NoResult
    /\ thresholds.performance_low # thresholds.potential_low
    /\ performance_rating = 42000
    /\ potential_rating = 38000
    /\ segmentation.segment_label.name # segmentationSwapped.segment_label.name

----------------------------------------------------------------------------
(* Gap analysis rows (EmployeeGapAnalysis) *)

\* scoreGapSchema: scores lie in 0..100
MaxScore == 100

GapValues == (0 - Slack)..(MaxScore * Unit + Slack)

\* The number NaN, an integer outside every range the model computes in.
NaN == 0 - 1000000

IsNaN(x) == x = NaN

\* Arithmetic and comparisons of numbers: NaN is contagious in arithmetic
\* and makes every comparison false.
jsSub(a, b) == IF IsNaN(a) \/ IsNaN(b) THEN NaN ELSE a - b

jsMul(a, b) == IF IsNaN(a) \/ IsNaN(b) THEN NaN ELSE a * b

jsLE(a, b) == ~IsNaN(a) /\ ~IsNaN(b) /\ a <= b

jsGE(a, b) == ~IsNaN(a) /\ ~IsNaN(b) /\ a >= b

jsGT(a, b) == ~IsNaN(a) /\ ~IsNaN(b) /\ a > b

\* x ?? d
Coalesce(x, d) == IF x = JsNull \/ x = JsUndefined THEN d ELSE x

\* Number(x)
ToNumber(x) ==
    CASE x.type = "number" -> x.value
      [] x.type = "null" -> 0
      [] x.type = "undefined" -> NaN
      [] x.type = "string" -> IF x.numeric THEN x.value ELSE NaN

Abs(x) == IF IsNaN(x) THEN NaN ELSE IF x < 0 THEN 0 - x ELSE x

Max(a, b) == IF IsNaN(a) \/ IsNaN(b) THEN NaN ELSE IF a >= b THEN a ELSE b

Min(a, b) == IF IsNaN(a) \/ IsNaN(b) THEN NaN ELSE IF a <= b THEN a ELSE b

\* Math.round(n / d) for d # 0: the nearest integer, a tie going up.
MathRound(n, d) ==
    IF IsNaN(n) \/ IsNaN(d) THEN NaN
    ELSE IF d > 0 THEN (2 * n + d) \div (2 * d)
    ELSE (2 * (0 - n) + (0 - d)) \div (2 * (0 - d))

getBarColor(employeeVal, requiredVal) ==
    LET diff == jsSub(requiredVal, employeeVal)
    IN  IF jsLE(diff, 0) THEN "green"
        ELSE IF jsLE(diff, 5 * Unit) THEN "blue"
        ELSE IF jsLE(diff, 15 * Unit) THEN "amber"
        ELSE "rose"

getStatusBadge_StrictClose(employeeVal, requiredVal) ==
    LET diff == employeeVal - requiredVal
    IN  IF requiredVal = 0 THEN "N/A"
        ELSE IF diff >= 0 THEN "Met"
        ELSE IF Abs(diff) < 5 * Unit THEN "Close"
        ELSE "Gap"

getStatusBadge_MetFirst(employeeVal, requiredVal) ==
    LET diff == employeeVal - requiredVal
    IN  IF diff >= 0 THEN "Met"
        ELSE IF requiredVal = 0 THEN "N/A"
        ELSE IF Abs(diff) <= 5 * Unit THEN "Close"
        ELSE "Gap"

getStatusBadge_StrictMet(employeeVal, requiredVal) ==
    LET diff == employeeVal - requiredVal
    IN  IF requiredVal = 0 THEN "N/A"
        ELSE IF diff > 0 THEN "Met"
        ELSE IF Abs(diff) <= 5 * Unit THEN "Close"
        ELSE "Gap"

getStatusBadge(employeeVal, requiredVal) ==
    LET diff == jsSub(employeeVal, requiredVal)
    IN  IF requiredVal = 0 THEN "N/A"
        ELSE IF jsGE(diff, 0) THEN "Met"
        ELSE IF jsLE(Abs(diff), 5 * Unit) THEN "Close"
        ELSE "Gap"

safePercent_NoClamp(employeeVal, requiredVal) ==
    IF requiredVal = 0
    THEN IF employeeVal > 0 THEN 100 ELSE 0
    ELSE MathRound(employeeVal * 100, requiredVal)

safePercent_AnyValue(employeeVal, requiredVal) ==
    IF requiredVal = 0
    THEN IF employeeVal >= 0 THEN 100 ELSE 0
    ELSE LET p == MathRound(employeeVal * 100, requiredVal)
         IN  Max(0, Min(100, p))

safePercent(employeeVal, requiredVal) ==
    IF IsNaN(requiredVal) \/ requiredVal = 0
    THEN IF jsGT(employeeVal, 0) THEN 100 ELSE 0
    ELSE LET p == MathRound(jsMul(employeeVal, 100), requiredVal)
         IN  Max(0, Min(100, p))

\* One entry of score_gaps as the Score Comparison card renders it.
ScoreRow(emp, req) ==
    [percent |-> safePercent(emp, req),
     status |-> getStatusBadge(emp, req),
     gap |-> jsSub(emp, req),
     bar |-> getBarColor(emp, req)]

\* One entry of rating_gaps as the Rating Comparison card renders it.
RatingRow(emp, req) ==
    [percent |-> safePercent(emp, req),
     status |-> getStatusBadge(emp, req),
     gap |-> jsSub(emp, req),
     bar |-> getBarColor(jsMul(emp, 20), jsMul(req, 20))]

RenderScoreRow ==
    /\ rowKind = "score"
    /\ row = NoResult
    /\ LET emp == ToNumber(Coalesce(rawEmployee, JsNum(0)))
           req == ToNumber(Coalesce(rawRequired, JsNum(0)))
       IN  /\ employee' = emp
           /\ required' = req
           /\ row' = ScoreRow(emp, req)
    /\ UNCHANGED <<rowKind, rawEmployee, rawRequired>>
    /\ UNCHANGED exceptRow

RenderRatingRow ==
    /\ rowKind = "rating"
    /\ row = NoResult
    /\ LET emp == ToNumber(Coalesce(rawEmployee, JsNum(0)))
           req == ToNumber(Coalesce(rawRequired, JsNum(0)))
       IN  /\ employee' = emp
           /\ required' = req
           /\ row' = RatingRow(emp, req)
    /\ UNCHANGED <<rowKind, rawEmployee, rawRequired>>
    /\ UNCHANGED exceptRow

InitGap ==
    /\ rowKind \in {"score", "rating"}
    /\ employee \in GapValues
    /\ required \in GapValues
    /\ row = NoResult
    /\ rawEmployee = JsNum(employee)
    /\ rawRequired = JsNum(required)
    /\ IdleClassify
    /\ IdleSkills
    /\ IdleConfig
    /\ IdleServer
    /\ IdleHttp
    /\ IdleClient
    /\ IdleScroll

NextGap == RenderScoreRow \/ RenderRatingRow

SpecGap == InitGap /\ [][NextGap]_vars

\* Values a gap entry can carry in the JSON of /gap-analysis: numbers, a
\* missing value (null or absent), a string spelling a number, another string.
RawValues ==
    { JsNull, JsUndefined, JsStr(FALSE, 0), JsStr(TRUE, 60 * Unit) }
    \cup { JsNum(n) : n \in { 0, 3 * Unit, 60 * Unit, 80 * Unit, 0 - Unit } }

InitGapRaw ==
    /\ rowKind \in {"score", "rating"}
    /\ rawEmployee \in RawValues
    /\ rawRequired \in RawValues
    /\ employee = 0
    /\ required = 0
    /\ row = NoResult
    /\ IdleClassify
    /\ IdleSkills
    /\ IdleConfig
    /\ IdleServer
    /\ IdleHttp
    /\ IdleClient
    /\ IdleScroll

SpecGapRaw == InitGapRaw /\ [][NextGap]_vars

----------------------------------------------------------------------------
(* Claims about the gap rows *)

Rendered == row # NoResult

\* C4: for a non-zero requirement, with diff = employee - required, the status
\* is Met when diff >= 0, Close when 0 > diff >= -5 and Gap otherwise;
\* employee 60 against required 80 is a Gap of -20.
C4_GapStatus ==
    (Rendered /\ required # 0) =>
        LET diff == employee - required
        IN  /\ row.gap = diff
            /\ (diff >= 0) => (row.status = "Met")
            /\ (0 > diff /\ diff >= 0 - 5 * Unit) => (row.status = "Close")
            /\ (diff < 0 - 5 * Unit) => (row.status = "Gap")
            /\ (employee = 60 * Unit /\ required = 80 * Unit)
                  => (row.gap = 0 - 20 * Unit /\ row.status = "Gap")

C4_Witness ==
    /\ Rendered
    /\ employee = 60 * Unit
    /\ required = 80 * Unit
    /\ row.gap = 0 - 20 * Unit
    /\ row.status = "Gap"

\* round(clamp(e / r, 0, 1) * 100) for r # 0: the ratio is clamped first and
\* the clamped ratio is then rounded to a whole percentage.
RoundOfClampedRatio(e, r) ==
    IF e * r <= 0 THEN 0
    ELSE IF Abs(e) >= Abs(r) THEN 100
    ELSE (200 * Abs(e) + Abs(r)) \div (2 * Abs(r))

\* C5: for a non-zero requirement the percentage match is
\* round(clamp(e / r, 0, 1) * 100) and so lies in 0..100 (60 against 80 is
\* 75); for a zero requirement it is 100 when e > 0 and 0 otherwise.
C5_PercentageMatch ==
    Rendered =>
        /\ (required # 0) =>
              /\ row.percent = RoundOfClampedRatio(employee, required)
              /\ row.percent \in 0..100
        /\ (required = 0 /\ employee > 0) => (row.percent = 100)
        /\ (required = 0 /\ employee <= 0) => (row.percent = 0)
        /\ (employee = 60 * Unit /\ required = 80 * Unit) => (row.percent = 75)

C5_Witness ==
    /\ Rendered
    /\ employee = 60 * Unit
    /\ required = 80 * Unit
    /\ row.percent = 75

\* The value the claim takes for a JSON value: its number, and 0 for a
\* missing or non-numeric one.
ZeroEquivalent(x) ==
    IF x.type = "number" THEN x.value
    ELSE IF x.type = "string" /\ x.numeric THEN x.value
    ELSE 0

\* C11: when the employee or required value of an attribute is missing or
\* non-numeric, the row shows exactly the status and the percentage computed
\* for the value 0 (and rendering does not fail).
C11_Original ==
    Rendered =>
        LET e0 == ZeroEquivalent(rawEmployee)
            r0 == ZeroEquivalent(rawRequired)
        IN  /\ row.percent = safePercent(e0, r0)
            /\ row.status = getStatusBadge(e0, r0)

\* C6: an attribute with required == 0 and employee == 0 has status N/A.
C6_ZeroZeroIsNA ==
    (Rendered /\ required = 0 /\ employee = 0) => (row.status = "N/A")

C6_Witness ==
    /\ Rendered
    /\ required = 0
    /\ employee = 0
    /\ row.status = "N/A"

\* C7 as stated: with required == 0 and employee != 0 the match is 100%, and
\* the status N/A is given only when the employee value is 0 as well.
C7_Original ==
    Rendered =>
        /\ (required = 0 /\ employee # 0) => (row.percent = 100)
        /\ (row.status = "N/A") => (required = 0 /\ employee = 0)

\* C7 (amended): with required == 0 the match is 100% when employee > 0 and
\* 0% otherwise, and the status is N/A for every employee value, zero or not.
C7_ZeroRequirement ==
    (Rendered /\ required = 0) =>
        /\ row.status = "N/A"
        /\ (employee > 0) => (row.percent = 100)
        /\ (employee <= 0) => (row.percent = 0)

C7_Witness ==
    /\ Rendered
    /\ required = 0
    /\ employee = 50 * Unit
    /\ row.status = "N/A"
    /\ row.percent = 100

\* C8 as stated: when employee equals required (zero included) the status is
\* Met and the match 100%.
C8_Original ==
    (Rendered /\ employee = required) =>
        (row.status = "Met" /\ row.percent = 100)

\* C8 (amended): when employee equals required and the value is not zero the
\* status is Met and the match 100%; when both are zero the status is N/A and
\* the match 0%.
C8_EqualValues ==
    (Rendered /\ employee = required) =>
        /\ (required # 0) => (row.status = "Met" /\ row.percent = 100 /\ row.gap = 0)
        /\ (required = 0) => (row.status = "N/A" /\ row.percent = 0 /\ row.gap = 0)

C8_Witness ==
    /\ Rendered
    /\ employee = required
    /\ required = 80 * Unit
    /\ row.status = "Met"
    /\ row.percent = 100

\* the values the gap schemas admit: scores in 0..100, ratings in 0..5
InSchemaRange ==
    IF rowKind = "rating"
    THEN employee \in 0..(5 * Unit) /\ required \in 0..(5 * Unit)
    ELSE employee \in 0..(MaxScore * Unit) /\ required \in 0..(MaxScore * Unit)

\* C29: for every score row and every rating row with required > 0, the
\* badge is Met exactly when the bar is green and Close exactly when the bar
\* is blue.
C29_Original ==
    (Rendered /\ required > 0 /\ InSchemaRange) =>
        /\ row.status = "Met" <=> row.bar = "green"
        /\ row.status = "Close" <=> row.bar = "blue"

----------------------------------------------------------------------------
(* Gap scorer: skill matching *)

\* Skill names; "Python" and "python" differ in case only.
SkillNames == { "Python", "python", "SQL", "Leadership" }

\* The name in lower case.
LowerCase(skill) ==
    CASE skill = "Python" -> "python"
      [] skill = "SQL" -> "sql"
      [] skill = "Leadership" -> "leadership"
      [] OTHER -> skill

\* Exact string equality of two skill names.
SameSkill(a, b) == a = b

SameSkill_IgnoreCase(a, b) == LowerCase(a) = LowerCase(b)

HasSkill_IgnoreCase(skills, skill) ==
    \E s \in skills : SameSkill_IgnoreCase(s, skill)

HasSkill(skills, skill) == \E s \in skills : SameSkill(s, skill)

\* The required skills the employee has, and those the employee lacks.
computeSkillGaps(empSkills, reqSkills) ==
    [matched_skills |-> { s \in reqSkills : HasSkill(empSkills, s) },
     missing_skills |-> { s \in reqSkills : ~HasSkill(empSkills, s) }]

\* POST /gap-analysis, the skill part of the result
GapAnalysisSkills ==
    /\ skillResult = NoResult
    /\ skillResult' = computeSkillGaps(employeeSkills, requiredSkills)
    /\ UNCHANGED <<employeeSkills, requiredSkills>>
    /\ UNCHANGED exceptSkills

InitSkills ==
    /\ employeeSkills \in SUBSET SkillNames
    /\ requiredSkills \in SUBSET SkillNames
    /\ skillResult = NoResult
    /\ IdleClassify
    /\ IdleRow
    /\ IdleConfig
    /\ IdleServer
    /\ IdleHttp
    /\ IdleClient
    /\ IdleScroll

NextSkills == GapAnalysisSkills

SpecSkills == InitSkills /\ [][NextSkills]_vars

----------------------------------------------------------------------------
(* Claims about skill matching *)

SkillsDone == skillResult # NoResult

\* C9: matched is the required skills the employee has under exact,
\* case-sensitive equality and missing is the required skills the employee
\* lacks, so the two partition the required skills; employee {Python, SQL}
\* against required {Python, Leadership} gives matched {Python} and missing
\* {Leadership}.
C9_SkillPartition ==
    SkillsDone =>
        /\ skillResult.matched_skills = requiredSkills \cap employeeSkills
        /\ skillResult.missing_skills = requiredSkills \ employeeSkills
        /\ skillResult.matched_skills \cup skillResult.missing_skills = requiredSkills
        /\ skillResult.matched_skills \cap skillResult.missing_skills = {}
        /\ (employeeSkills = {"Python", "SQL"} /\ requiredSkills = {"Python", "Leadership"})
              => /\ skillResult.matched_skills = {"Python"}
                 /\ skillResult.missing_skills = {"Leadership"}

C9_Witness ==
    /\ SkillsDone
    /\ employeeSkills = {"Python", "SQL"}
    /\ requiredSkills = {"Python", "Leadership"}
    /\ skillResult.matched_skills = {"Python"}
    /\ skillResult.missing_skills = {"Leadership"}

----------------------------------------------------------------------------
(* Threshold configuration of the AI backend: POST /config and the         *)
(* classifications of /segment/bulk that read the active thresholds.       *)

BatchSize == 2

\* Threshold sets a client submits.  No accepted set shares both cut points
\* of an axis with another, so a set mixing two of them is none of them.
WideThresholds ==
    [performance_low |-> 30000, performance_high |-> 45000,
     potential_low |-> 30000, potential_high |-> 45000]

EqualThresholds ==
    [performance_low |-> 25000, performance_high |-> 25000,
     potential_low |-> 25000, potential_high |-> 25000]

SubmittedConfigs ==
    { DefaultThresholds, WideThresholds, EqualThresholds,
      [DefaultThresholds EXCEPT !.performance_low = 45000],
      [WideThresholds EXCEPT !.potential_high = 25000] }

\* low > high on an axis is a configuration error; low = high is allowed
ValidThresholds_PerformanceOnly(th) ==
    th.performance_low <= th.performance_high

ValidThresholds_Strict(th) ==
    /\ th.performance_low < th.performance_high
    /\ th.potential_low < th.potential_high

ValidThresholds(th) ==
    /\ th.performance_low <= th.performance_high
    /\ th.potential_low <= th.potential_high

\* the active object after an accepted update: the submitted object, whole
Install_FieldByField(old, new) ==
    [old EXCEPT !.performance_low = new.performance_low,
                !.performance_high = new.performance_high]

Install(old, new) == new

\* <<performance, potential>> of the employees a bulk request can carry
BatchInputs == { <<24999, 25000>>, <<37000, 25000>>, <<45000, 37000>> }

UpdateConfig ==
    /\ \E c \in SubmittedConfigs :
        IF ValidThresholds(c)
        THEN /\ config' = Install(config, c)
             /\ installed' = installed \cup {c}
             /\ configReply' = [submitted |-> c, status |-> "ok", before |-> config]
        ELSE /\ configReply' =
                    [submitted |-> c, status |-> "ConfigurationError", before |-> config]
             /\ UNCHANGED <<config, installed>>
    /\ UNCHANGED <<batch, snapshot, batchResults>>
    /\ UNCHANGED exceptConfig

\* the next employee of the batch: take the active thresholds object
BulkReadThresholds ==
    /\ Len(batchResults) < Len(batch)
    /\ snapshot = NoResult
    /\ snapshot' = config
    /\ UNCHANGED <<config, installed, configReply, batch, batchResults>>
    /\ UNCHANGED exceptConfig

\* classify that employee with the thresholds taken
BulkClassify ==
    /\ snapshot # NoResult
    /\ LET e == batch[Len(batchResults) + 1]
       IN  batchResults' = Append(batchResults,
                [performance |-> e[1], potential |-> e[2], used |-> snapshot,
                 segment |-> classify(e[1], e[2], snapshot)])
    /\ snapshot' = NoResult
    /\ UNCHANGED <<config, installed, configReply, batch>>
    /\ UNCHANGED exceptConfig

InitConfig ==
    /\ config = DefaultThresholds
    /\ installed = {DefaultThresholds}
    /\ configReply = NoResult
    /\ batch \in [1..BatchSize -> BatchInputs]
    /\ snapshot = NoResult
    /\ batchResults = <<>>
    /\ IdleClassify
    /\ IdleRow
    /\ IdleSkills
    /\ IdleServer
    /\ IdleHttp
    /\ IdleClient
    /\ IdleScroll

NextConfig == UpdateConfig \/ BulkReadThresholds \/ BulkClassify

SpecConfig == InitConfig /\ [][NextConfig]_vars

Rejected == configReply # NoResult /\ configReply.status = "ConfigurationError"

Accepted == configReply # NoResult /\ configReply.status = "ok"

LowAboveHigh(th) ==
    th.performance_low > th.performance_high \/ th.potential_low > th.potential_high

\* C12: a threshold set with low > high on either axis is rejected with a
\* configuration error, the thresholds active before it stay active
\* unchanged, and no classification is computed with a set that has
\* low > high on an axis.
C12_RejectInvalid ==
    /\ (configReply # NoResult /\ LowAboveHigh(configReply.submitted)) =>
            /\ configReply.status = "ConfigurationError"
            /\ config = configReply.before
            /\ configReply.submitted \notin installed
    /\ ~LowAboveHigh(config)
    /\ snapshot # NoResult => ~LowAboveHigh(snapshot)
    /\ \A i \in 1..Len(batchResults) : ~LowAboveHigh(batchResults[i].used)

C12_Witness ==
    /\ Rejected
    /\ LowAboveHigh(configReply.submitted)
    /\ configReply.before = WideThresholds
    /\ Len(batchResults) = Len(batch)

----------------------------------------------------------------------------
(* The Express server: accounts of the Employee collection and the         *)
(* requests that write them.  A request that awaits the database between   *)
(* a read and a write is split at the await; the others are one step.      *)

\* _ids: the employees e1 and e2 and the committee member c1 exist from the
\* start with an email and a password, s1 is an employee the seed script
\* inserted with neither, e3 and e4 are the _ids of the next documents
\* created, zz is a
\* well-formed _id of no document
Ids == {"e1", "e2", "e3", "e4", "c1", "s1"}
FreshIds == <<"e3", "e4">>
MissingId == "zz"
NoId == "null"
NoEmail == "undefined"
NoHash == "undefined"
\* the password every account of the model was created with
Secret == "secret"

\* the accounts whose mentorship the requests of the model address
Mentees == {"e1"}
Mentors == {"e2", "e3"}

\* mentorship of a document created without one: the schema default
DefaultMentorship == [status |-> "none", mentor_id |-> NoId, approved_at |-> FALSE]

StatusEnum == {"none", "requested", "approved", "rejected"}

\* the document Employee.create stores for a signup: whatever user_role the
\* body names, the account is an employee
NewEmployee(email, user_role) ==
    [user_role |-> "employee", email |-> email, password |-> Secret,
     department |-> "", target_success_role |-> "",
     mentorship |-> DefaultMentorship]

\* the _id the database gives the next document
NextId == IF employees[FreshIds[1]] = NoResult THEN FreshIds[1] ELSE FreshIds[2]

Exists(id) == id \in Ids /\ employees[id] # NoResult

\* the mentorship object a $set of the whole path stores for a request
\* body, as a later read shows it: no validator runs on the update, a
\* field the body lacks is absent (status then reads as its default)
CastMentorship(b) ==
    [status |-> IF "status" \in DOMAIN b THEN b.status ELSE "none",
     mentor_id |-> IF "mentor_id" \in DOMAIN b THEN b.mentor_id ELSE NoId,
     approved_at |-> FALSE]

Respond(op, status) == [op |-> op, status |-> status]

NoAccept == [pc |-> "idle"]

\* POST /api/auth/signup.  "" stands for a body without name, email or
\* password.
SignupEmails == {"", "e1@x", "e3@x"}

\* clients that may have a signup request in progress at the same time
SignupClients == {1, 2}

\* user_role === 'committee'
IsCommitteeSignup_Never(user_role) == FALSE

IsCommitteeSignup(user_role) == user_role = "committee"

SignupDone(c, email, user_role, status) ==
    /\ signupOps' = [signupOps EXCEPT ![c] =
            [pc |-> "done", email |-> email, user_role |-> user_role,
             status |-> status]]
    /\ lastResponse' = Respond("signup", status)

\* signup up to the end of await Employee.findOne({ email }), with the
\* checks that follow it
signup_FindOne ==
    /\ \E c \in SignupClients, email \in SignupEmails,
          user_role \in {"employee", "committee"} :
        /\ signupOps[c].pc \in {"idle", "done"}
        /\ IF email = ""
           THEN SignupDone(c, email, user_role, 400)
           ELSE IF \E id \in Ids : Exists(id) /\ employees[id].email = email
           THEN SignupDone(c, email, user_role, 409)
           ELSE IF IsCommitteeSignup(user_role)
           THEN SignupDone(c, email, user_role, 403)
           ELSE /\ signupOps' = [signupOps EXCEPT ![c] =
                        [pc |-> "create", email |-> email, user_role |-> user_role]]
                /\ UNCHANGED lastResponse
    /\ UNCHANGED <<employees, acceptOp>>
    /\ UNCHANGED exceptServer

\* await bcrypt.hash, await Employee.create and the 201 response
signup_Create ==
    /\ \E c \in SignupClients :
        /\ signupOps[c].pc = "create"
        /\ employees[NextId] = NoResult
        /\ employees' = [employees EXCEPT ![NextId] =
                NewEmployee(signupOps[c].email, signupOps[c].user_role)]
        /\ SignupDone(c, signupOps[c].email, signupOps[c].user_role, 201)
    /\ UNCHANGED acceptOp
    /\ UNCHANGED exceptServer

\* PATCH /api/employee/me
UpdateMeBodies ==
    { [target_success_role |-> "Lead"],
      [target_success_role |-> "", mentorship |-> [status |-> "approved"]],
      [mentorship |-> [status |-> "approved"]],
      [user_role |-> "committee", email |-> "c1@x", department |-> "Board",
       password |-> "changed"] }

\* the keys updateMe copies from the body
allowed_AnyKey ==
    { "skills", "target_success_role", "num_trainings", "assessment_scores",
      "performance_rating", "potential_rating",
      "user_role", "email", "password", "department", "mentorship" }

allowed ==
    { "skills", "target_success_role", "num_trainings", "assessment_scores",
      "performance_rating", "potential_rating" }

\* the accounts that send PATCH /api/employee/me
ProfileEditors == {"e1", "e2"}

updateMe ==
    /\ \E caller \in ProfileEditors, body \in UpdateMeBodies :
        /\ Exists(caller)
        /\ employees' = [employees EXCEPT ![caller] =
                [f \in DOMAIN @ |->
                    IF f \in allowed /\ f \in DOMAIN body THEN body[f] ELSE @[f]]]
        /\ lastResponse' = [op |-> "updateMe", status |-> 200,
                            user |-> caller, body |-> body]
    /\ UNCHANGED <<acceptOp, signupOps>>
    /\ UNCHANGED exceptServer

\* POST /api/employee/mentorship-request
requestMentorship ==
    /\ \E caller \in Mentees, mentor_id \in Mentors \cup {MissingId, NoId} :
        /\ Exists(caller)
        /\ IF mentor_id = NoId
           THEN /\ lastResponse' = Respond("requestMentorship", 400)
                /\ UNCHANGED employees
           ELSE IF ~Exists(mentor_id)
           THEN /\ lastResponse' = Respond("requestMentorship", 404)
                /\ UNCHANGED employees
           ELSE /\ employees' = [employees EXCEPT ![caller].mentorship =
                        [status |-> "requested", mentor_id |-> mentor_id,
                         approved_at |-> FALSE]]
                /\ lastResponse' = Respond("requestMentorship", 201)
    /\ UNCHANGED <<acceptOp, signupOps>>
    /\ UNCHANGED exceptServer

\* PATCH /api/committee/employee/:id
UpdateEmployeeBodies ==
    { [mentorship |-> [status |-> "approved"]],
      [mentorship |-> [status |-> "pending"]],
      [target_success_role |-> "Lead"] }

updateEmployee ==
    /\ \E id \in Mentees \cup {MissingId}, body \in UpdateEmployeeBodies :
        IF ~Exists(id)
        THEN /\ lastResponse' = Respond("updateEmployee", 404)
             /\ UNCHANGED employees
        ELSE /\ employees' = [employees EXCEPT ![id] =
                    [f \in DOMAIN @ |->
                        IF f \notin DOMAIN body THEN @[f]
                        ELSE IF f = "mentorship" THEN CastMentorship(body[f])
                        ELSE body[f]]]
             /\ lastResponse' = Respond("updateEmployee", 200)
    /\ UNCHANGED <<acceptOp, signupOps>>
    /\ UNCHANGED exceptServer

\* PATCH /api/employee/mentorship-accept, up to the first await: the
\* caller's own document is looked up
acceptMentorship_FindMentor ==
    /\ acceptOp.pc \in {"idle", "done"}
    /\ \E caller \in Mentors, mentee_id \in Mentees \cup {MissingId},
          action \in {"approved", "rejected", "declined"} :
        /\ Exists(caller)
        /\ acceptOp' = [pc |-> "findMentee", mentor |-> caller,
                        mentee_id |-> mentee_id, action |-> action]
    /\ UNCHANGED <<employees, lastResponse, signupOps>>
    /\ UNCHANGED exceptServer

\* the mentee is read, the request is checked against what was read, and
\* the decision is written to the document in memory
acceptMentorship_FindMentee ==
    /\ acceptOp.pc = "findMentee"
    /\ IF ~Exists(acceptOp.mentee_id)
       THEN /\ acceptOp' = [acceptOp EXCEPT !.pc = "done"]
            /\ lastResponse' = Respond("acceptMentorship", 404)
       ELSE LET m == employees[acceptOp.mentee_id].mentorship
            IN  IF m.status # "requested" \/ m.mentor_id # acceptOp.mentor
                THEN /\ acceptOp' = [acceptOp EXCEPT !.pc = "done"]
                     /\ lastResponse' = Respond("acceptMentorship", 400)
                ELSE /\ acceptOp' = [pc |-> "save", mentor |-> acceptOp.mentor,
                            mentee_id |-> acceptOp.mentee_id,
                            action |-> acceptOp.action,
                            mentee |-> [m EXCEPT
                                !.status = IF acceptOp.action = "approved"
                                           THEN "approved" ELSE "rejected",
                                !.approved_at = IF acceptOp.action = "approved"
                                                THEN TRUE ELSE @]]
                     /\ UNCHANGED lastResponse
    /\ UNCHANGED <<employees, signupOps>>
    /\ UNCHANGED exceptServer

\* mentee.save(): the paths modified in memory are written to the stored
\* document, whatever it holds by now
acceptMentorship_Save ==
    /\ acceptOp.pc = "save"
    /\ employees' = [employees EXCEPT ![acceptOp.mentee_id].mentorship =
            [@ EXCEPT !.status = acceptOp.mentee.status,
                      !.approved_at = IF acceptOp.action = "approved"
                                      THEN TRUE ELSE @]]
    /\ acceptOp' = [acceptOp EXCEPT !.pc = "done"]
    /\ lastResponse' = Respond("acceptMentorship", 200)
    /\ UNCHANGED signupOps
    /\ UNCHANGED exceptServer

\* the collection before the first request: two employees and a committee
\* member
SeededEmployees ==
    [id \in Ids |->
        CASE id = "e1" -> NewEmployee("e1@x", "employee")
          [] id = "e2" -> NewEmployee("e2@x", "employee")
          [] id = "c1" -> [NewEmployee("c1@x", "committee") EXCEPT !.user_role = "committee"]
          [] id = "s1" -> [NewEmployee(NoEmail, "employee") EXCEPT !.password = NoHash]
          [] OTHER -> NoResult]

InitServer ==
    /\ employees = SeededEmployees
    /\ acceptOp = NoAccept
    /\ lastResponse = NoResult
    /\ signupOps = [c \in SignupClients |-> [pc |-> IF c = 1 THEN "idle" ELSE "off"]]
    /\ IdleClassify
    /\ IdleRow
    /\ IdleSkills
    /\ IdleConfig
    /\ IdleHttp
    /\ IdleClient
    /\ IdleScroll

NextServer ==
    \/ signup_FindOne
    \/ signup_Create
    \/ updateMe
    \/ requestMentorship
    \/ updateEmployee
    \/ acceptMentorship_FindMentor
    \/ acceptMentorship_FindMentee
    \/ acceptMentorship_Save

SpecServer == InitServer /\ [][NextServer]_vars

\* POST /api/auth/login.  The body is any JSON: email and password may be
\* strings, a number, or an object, which findOne takes as a query.
Str(text) == [type |-> "string", text |-> text]

LoginEmails ==
    { Str(""), Str("e1@x"), Str("nobody@x"), [type |-> "object", exists |-> FALSE] }

LoginPasswords ==
    { Str(""), Str(Secret), Str("wrong"), [type |-> "number", value |-> 12345] }

\* !x
Falsy(x) == x.type = "string" /\ x.text = ""

\* the documents Employee.findOne({ email }) can return
FindByEmail(email) ==
    { id \in Ids :
        /\ Exists(id)
        /\ IF email.type = "string" THEN employees[id].email = email.text
           ELSE (employees[id].email = NoEmail) <=> ~email.exists }

\* bcrypt.compare(data, hash): rejects unless data is a string and hash is
\* one
bcryptCompare(data, hash) ==
    IF data.type # "string" \/ hash = NoHash THEN "throws"
    ELSE IF data.text = hash THEN "match" ELSE "mismatch"

LoginResponse(email, password, status, message) ==
    [op |-> "login", email |-> email, password |-> password,
     status |-> status, message |-> message]

\* a rejected handler: the error handler of the framework answers 500, or
\* no response is sent at all (status 0)
login ==
    /\ \E email \in LoginEmails, password \in LoginPasswords :
        IF Falsy(email) \/ Falsy(password)
        THEN lastResponse' =
                LoginResponse(email, password, 400, "Email and password required")
        ELSE IF FindByEmail(email) = {}
        THEN lastResponse' = LoginResponse(email, password, 401, "Invalid credentials")
        ELSE \E id \in FindByEmail(email) :
            LET passwordMatch == bcryptCompare(password, employees[id].password)
            IN  CASE passwordMatch = "throws" ->
                        \E status \in {0, 500} :
                            lastResponse' = LoginResponse(email, password, status, "")
                  [] passwordMatch = "mismatch" ->
                        lastResponse' =
                            LoginResponse(email, password, 401, "Invalid credentials")
                  [] passwordMatch = "match" ->
                        lastResponse' = LoginResponse(email, password, 200, "")
    /\ UNCHANGED <<employees, acceptOp, signupOps>>
    /\ UNCHANGED exceptServer

\* Accounts: signup by two clients at once, and updateMe
InitAccounts ==
    /\ employees = SeededEmployees
    /\ acceptOp = NoAccept
    /\ lastResponse = NoResult
    /\ signupOps = [c \in SignupClients |-> [pc |-> "idle"]]
    /\ IdleClassify
    /\ IdleRow
    /\ IdleSkills
    /\ IdleConfig
    /\ IdleHttp
    /\ IdleClient
    /\ IdleScroll

NextAccounts == signup_FindOne \/ signup_Create \/ updateMe \/ login

SpecAccounts == InitAccounts /\ [][NextAccounts]_vars

\* C15: after any sequence of signup, requestMentorship, acceptMentorship,
\* committee updateEmployee and updateMe, the mentorship.status of every
\* employee is one of none, requested, approved, rejected.
C15_Original ==
    \A id \in Ids : Exists(id) => employees[id].mentorship.status \in StatusEnum

\* C16: when a mentor's acceptMentorship writes its decision over a request
\* of the mentee, the stored mentorship then names that mentor: no
\* interleaving with the mentee's requestMentorship leaves the status
\* approved or rejected for another mentor_id.
C16_Original ==
    [][ ( /\ acceptOp.pc = "save"
          /\ acceptOp'.pc = "done"
          /\ employees[acceptOp.mentee_id].mentorship.status = "requested" )
        => employees'[acceptOp.mentee_id].mentorship.mentor_id = acceptOp.mentor
      ]_vars

\* C21: acceptMentorship changes a mentee's mentorship only when the stored
\* status is requested and the stored mentor_id is the caller, and then sets
\* the status to approved for action approved and to rejected for any other
\* action; when the mentee it reads has another status or another mentor it
\* answers 400 and changes nothing.
C21_Original ==
    [][ /\ (acceptOp.pc = "save" /\ acceptOp'.pc = "done") =>
            LET stored == employees[acceptOp.mentee_id].mentorship
            IN  /\ stored.status = "requested"
                /\ stored.mentor_id = acceptOp.mentor
                /\ employees'[acceptOp.mentee_id].mentorship.status =
                        IF acceptOp.action = "approved" THEN "approved" ELSE "rejected"
        /\ ( /\ acceptOp.pc = "findMentee"
             /\ acceptOp' # acceptOp
             /\ Exists(acceptOp.mentee_id)
             /\ LET stored == employees[acceptOp.mentee_id].mentorship
                IN  stored.status # "requested" \/ stored.mentor_id # acceptOp.mentor )
           => /\ acceptOp'.pc = "done"
              /\ lastResponse' = Respond("acceptMentorship", 400)
              /\ employees' = employees
      ]_vars

\* C22: every employee whose mentorship.status is approved has a mentor_id
\* and an approved_at recorded.
C22_Original ==
    \A id \in Ids :
        (Exists(id) /\ employees[id].mentorship.status = "approved") =>
            /\ employees[id].mentorship.mentor_id # NoId
            /\ employees[id].mentorship.approved_at

CommitteeAccounts == { id \in Ids : Exists(id) /\ employees[id].user_role = "committee" }

AccountsFrame ==
    /\ \A i \in 1..Len(FreshIds) :
        Exists(FreshIds[i]) => employees[FreshIds[i]].user_role = "employee"
    /\ \A c \in SignupClients :
        (signupOps[c].pc # "idle" /\ signupOps[c].user_role = "committee") =>
            signupOps[c].pc = "done" /\ signupOps[c].status # 201
    /\ CommitteeAccounts = {"c1"}

\* C23: every account created by signup has user_role employee, a signup
\* request with user_role committee is refused with 403 and creates
\* nothing, and the set of committee accounts never changes.
C23_Original ==
    /\ AccountsFrame
    /\ \A c \in SignupClients :
        (signupOps[c].pc = "done" /\ signupOps[c].user_role = "committee") =>
            signupOps[c].status = 403

\* C23 as the code has it: a signup request with user_role committee is
\* refused with 400 when a required field is missing, else with 409 when the
\* email is in use, else with 403; it creates nothing in each case; accounts
\* created by signup are employees and the committee accounts never change.
C23_NoCommitteeSignup ==
    /\ AccountsFrame
    /\ \A c \in SignupClients :
        (signupOps[c].pc = "done" /\ signupOps[c].user_role = "committee") =>
            /\ signupOps[c].status \in {400, 403, 409}
            /\ signupOps[c].status = 400 <=> signupOps[c].email = ""
            /\ signupOps[c].status = 409 =>
                    \E id \in Ids : Exists(id) /\ employees[id].email = signupOps[c].email

C23_Witness ==
    /\ signupOps[1] = [pc |-> "done", email |-> "e3@x", user_role |-> "committee",
                       status |-> 403]
    /\ signupOps[2] = [pc |-> "done", email |-> "e1@x", user_role |-> "committee",
                       status |-> 409]
    /\ ~Exists("e3")
    /\ lastResponse # NoResult
    /\ lastResponse.op = "updateMe"
    /\ "user_role" \in DOMAIN lastResponse.body

\* C24: at most one account exists per email, and of two signups with the
\* same email at most one is answered 201.
C24_Original ==
    /\ \A i, j \in Ids :
        (i # j /\ Exists(i) /\ Exists(j)) => employees[i].email # employees[j].email
    /\ \A c, d \in SignupClients :
        ( /\ c # d
          /\ signupOps[c].pc = "done"
          /\ signupOps[d].pc = "done"
          /\ signupOps[c].email = signupOps[d].email
          /\ signupOps[c].status = 201 ) => signupOps[d].status # 201

\* C25: updateMe changes nothing but the updatable fields of the caller's
\* own record: user_role, email, department and mentorship of the caller
\* and every field of every other record stay as they were, whatever the
\* body contains.
C25_UpdateMeFrame ==
    [][ ( /\ lastResponse' # NoResult
          /\ lastResponse'.op = "updateMe"
          /\ employees' # employees )
        => \A id \in Ids :
            IF id # lastResponse'.user
            THEN employees'[id] = employees[id]
            ELSE \A f \in {"user_role", "email", "password", "department",
                             "mentorship"} :
                    employees'[id][f] = employees[id][f]
      ]_vars

C25_Witness ==
    /\ lastResponse # NoResult
    /\ lastResponse.op = "updateMe"
    /\ lastResponse.user = "e2"
    /\ "mentorship" \in DOMAIN lastResponse.body
    /\ employees["e2"].target_success_role = ""
    /\ employees["e1"].target_success_role = "Lead"
    /\ employees["e2"].mentorship = DefaultMentorship

\* C30: every login request with a non-empty email and password that
\* fails, for an unknown email or for a password that does not match the
\* stored account, an account stored without a password included, is
\* answered 401 'Invalid credentials', so that two such failures cannot be
\* told apart.
C30_Original ==
    ( /\ lastResponse # NoResult
      /\ lastResponse.op = "login"
      /\ ~Falsy(lastResponse.email)
      /\ ~Falsy(lastResponse.password)
      /\ lastResponse.status # 200 )
    => /\ lastResponse.status = 401
       /\ lastResponse.message = "Invalid credentials"

----------------------------------------------------------------------------
(* The routers of /api/employee and /api/committee: every route runs the   *)
(* chain authenticateJWT, authorizeRoles(...) where the route has one, and *)
(* then its handler.                                                        *)

Mw(fn) == [fn |-> fn]
Roles(allowedRoles) == [fn |-> "authorizeRoles", allowedRoles |-> allowedRoles]
Handler(name) == [fn |-> "handler", name |-> name]

Route(router, method, path, mws) ==
    [router |-> router, method |-> method, path |-> path, chain |-> mws]

EmployeeRoutes ==
    { Route("employee", "GET", "/me",
            <<Mw("authenticateJWT"), Handler("me")>>),
      Route("employee", "PATCH", "/me",
            <<Mw("authenticateJWT"), Roles({"employee"}), Handler("updateMe")>>),
      Route("employee", "GET", "/mentor-candidates",
            <<Mw("authenticateJWT"), Roles({"employee"}),
              Handler("getMentorCandidates")>>),
      Route("employee", "POST", "/mentorship-request",
            <<Mw("authenticateJWT"), Roles({"employee"}),
              Handler("requestMentorship")>>),
      Route("employee", "GET", "/success-profile",
            <<Mw("authenticateJWT"), Roles({"employee", "committee"}),
              Handler("getSuccessProfiles")>>),
      Route("employee", "PATCH", "/mentorship-accept",
            <<Mw("authenticateJWT"), Roles({"employee", "committee"}),
              Handler("acceptMentorship")>>),
      Route("employee", "GET", "/mentorship-status",
            <<Mw("authenticateJWT"), Roles({"employee"}),
              Handler("getMentorshipStatus")>>),
      Route("employee", "GET", "/development-plan",
            <<Mw("authenticateJWT"), Roles({"employee"}),
              Handler("getDevelopmentPlan")>>) }

\* router.use(authenticateJWT, authorizeRoles('committee')) in front of
\* every route of the committee router
CommitteeRoute(method, path, name) ==
    Route("committee", method, path,
          <<Mw("authenticateJWT"), Roles({"committee"}), Handler(name)>>)

CommitteeRoutes ==
    { CommitteeRoute("GET", "/employees", "listEmployees"),
      CommitteeRoute("GET", "/employee/:id", "getEmployee"),
      CommitteeRoute("PATCH", "/employee/:id", "updateEmployee"),
      CommitteeRoute("GET", "/success-profiles", "successProfiles"),
      CommitteeRoute("POST", "/employee/:id/development-plan",
                     "upsertDevelopmentPlan"),
      CommitteeRoute("GET", "/reports/summary", "reportsSummary"),
      CommitteeRoute("POST", "/success-profile", "createSuccessProfile") }

Routes == EmployeeRoutes \cup CommitteeRoutes

\* Tokens a client can send: one the server signed for a user and that has
\* not expired, an expired one, one with a wrong signature, an empty one.
Payloads ==
    { [id |-> "e1", user_role |-> "employee"],
      [id |-> "c1", user_role |-> "committee"],
      [id |-> "x1", user_role |-> "admin"] }

Tokens ==
    { [kind |-> k, payload |-> u] : k \in {"valid", "expired"}, u \in Payloads }
    \cup { [kind |-> "badSignature", payload |-> [id |-> "c1", user_role |-> "committee"]],
           [kind |-> "empty", payload |-> NoResult] }

\* Authorization headers "<scheme> <token>"; NoResult is a missing header
Headers ==
    { NoResult }
    \cup { [scheme |-> sc, token |-> t] : sc \in {"Bearer", "bearer", "Basic"}, t \in Tokens }

\* authHeader.startsWith('Bearer ')
StartsWithBearer(h) == h.scheme = "Bearer"

\* jwt.verify(token, JWT_SECRET) returns the payload; it throws otherwise
jwtVerify_IgnoreExpiration(token) == token.kind \in {"valid", "expired"}

jwtVerify(token) == token.kind = "valid"

\* allowedRoles.includes(req.user.user_role)
includes_Any(allowedRoles, user_role) == allowedRoles # {}

includes(allowedRoles, user_role) == user_role \in allowedRoles

Routing == resStatus = 0 /\ chain # <<>>

authenticateJWT ==
    /\ Routing
    /\ Head(chain).fn = "authenticateJWT"
    /\ LET authHeader == httpRequest.header
       IN  IF authHeader = NoResult \/ ~StartsWithBearer(authHeader)
           THEN /\ resStatus' = 401
                /\ UNCHANGED <<reqUser, chain>>
           ELSE IF jwtVerify(authHeader.token)
           THEN /\ reqUser' = authHeader.token.payload
                /\ chain' = Tail(chain)
                /\ UNCHANGED resStatus
           ELSE /\ resStatus' = 401
                /\ UNCHANGED <<reqUser, chain>>
    /\ UNCHANGED <<httpRequest, invoked>>
    /\ UNCHANGED exceptHttp

authorizeRoles ==
    /\ Routing
    /\ Head(chain).fn = "authorizeRoles"
    /\ IF reqUser = NoResult
       THEN /\ resStatus' = 401
            /\ UNCHANGED chain
       ELSE IF ~includes(Head(chain).allowedRoles, reqUser.user_role)
       THEN /\ resStatus' = 403
            /\ UNCHANGED chain
       ELSE /\ chain' = Tail(chain)
            /\ UNCHANGED resStatus
    /\ UNCHANGED <<httpRequest, reqUser, invoked>>
    /\ UNCHANGED exceptHttp

\* the handler of the route runs with the req.user it finds and answers
RunHandler ==
    /\ Routing
    /\ Head(chain).fn = "handler"
    /\ invoked' = [name |-> Head(chain).name, user |-> reqUser]
    /\ chain' = Tail(chain)
    /\ resStatus' = 200
    /\ UNCHANGED <<httpRequest, reqUser>>
    /\ UNCHANGED exceptHttp

InitHttp ==
    /\ \E r \in Routes, h \in Headers :
        /\ httpRequest = [route |-> r, header |-> h]
        /\ chain = r.chain
    /\ reqUser = NoResult
    /\ resStatus = 0
    /\ invoked = NoResult
    /\ IdleClassify
    /\ IdleRow
    /\ IdleSkills
    /\ IdleConfig
    /\ IdleServer
    /\ IdleClient
    /\ IdleScroll

NextHttp == authenticateJWT \/ authorizeRoles \/ RunHandler

SpecHttp == InitHttp /\ [][NextHttp]_vars

\* the request carries a token the server signed that has not expired
ValidBearer ==
    /\ httpRequest.header # NoResult
    /\ httpRequest.header.scheme = "Bearer"
    /\ httpRequest.header.token.kind = "valid"

Untouched == chain = httpRequest.route.chain /\ resStatus = 0

\* C17: a request whose Authorization header is missing, does not start
\* with 'Bearer ', or carries an invalid or expired token is answered 401 by
\* the first step of its route and its handler never runs; with a valid
\* token the handler sees the user decoded from the token.
C17_AuthenticationGate ==
    /\ ~ValidBearer =>
            /\ invoked = NoResult
            /\ Untouched \/ resStatus = 401
    /\ invoked # NoResult =>
            /\ ValidBearer
            /\ invoked.user = httpRequest.header.token.payload

C17_Witness ==
    /\ httpRequest.header # NoResult
    /\ httpRequest.header.scheme = "Bearer"
    /\ httpRequest.header.token.kind = "expired"
    /\ httpRequest.route.router = "committee"
    /\ resStatus = 401
    /\ invoked = NoResult

CommitteeHandlers ==
    { "listEmployees", "getEmployee", "updateEmployee", "successProfiles",
      "upsertDevelopmentPlan", "reportsSummary", "createSuccessProfile" }

EmployeeOnlyHandlers ==
    { "updateMe", "getMentorCandidates", "requestMentorship",
      "getMentorshipStatus", "getDevelopmentPlan" }

HandlerOf(r) == r.chain[Len(r.chain)].name

\* the role a handler of the two lists is reserved for
ReservedFor(name) ==
    IF name \in CommitteeHandlers THEN "committee" ELSE "employee"

\* C20: a committee handler runs only for a verified token with user_role
\* committee and an employee-only handler only for user_role employee; a
\* verified token with another role is answered 403 on these routes; and
\* the role check never answers before authentication has set req.user.
C20_RoleAuthorization ==
    LET name == HandlerOf(httpRequest.route)
    IN  name \in CommitteeHandlers \cup EmployeeOnlyHandlers =>
            /\ invoked # NoResult =>
                    /\ ValidBearer
                    /\ httpRequest.header.token.payload.user_role = ReservedFor(name)
            /\ (ValidBearer /\
                httpRequest.header.token.payload.user_role # ReservedFor(name)) =>
                    /\ invoked = NoResult
                    /\ resStatus \in {0, 403}
            /\ resStatus = 403 =>
                    /\ ValidBearer
                    /\ reqUser = httpRequest.header.token.payload
            /\ (Routing /\ Head(chain).fn = "authorizeRoles") => reqUser # NoResult

C20_Witness ==
    /\ ValidBearer
    /\ httpRequest.header.token.payload.user_role = "employee"
    /\ HandlerOf(httpRequest.route) = "updateEmployee"
    /\ resStatus = 403
    /\ invoked = NoResult

----------------------------------------------------------------------------
(* The browser: the session kept in localStorage and mirrored in cookies,  *)
(* the Next middleware that reads the cookies, and the access checks of    *)
(* the pages, which read localStorage                                      *)

MaxRedirects == 5

\* the tokens and users a login or signup response carries
SessionTokens == {"jwt1", "jwt2"}
AuthUsers == {[user_role |-> "employee"], [user_role |-> "committee"]}

\* the pages of the web app
Pages == {"/", "/login", "/signup", "/dashboard", "/dashboard/employee",
          "/dashboard/committee"}

\* the statuses an API response can carry
ApiStatuses == {200, 401, 403}

RoleCookie_Constant(user) == "employee"

\* the value saveAuth gives the role cookie
RoleCookie(user) == user.user_role

\* window.location.pathname.startsWith('/login'), over Pages
StartsWithLogin(path) == path = "/login"

\* the middleware's public paths, over Pages
isPublic(path) == path \in {"/login", "/signup"}

\* the dashboard a role is sent to
DashboardOf(role) ==
    IF role = "committee" THEN "/dashboard/committee" ELSE "/dashboard/employee"

\* a redirect of the navigation in progress: the new path is requested
\* from the server and passes the middleware again
RedirectTo(path) ==
    /\ redirects < MaxRedirects
    /\ pathname' = path
    /\ navPc' = "middleware"
    /\ redirects' = redirects + 1
    /\ UNCHANGED target

SessionUnchanged == UNCHANGED <<lsToken, lsUser, cookieToken, cookieRole, lastClientOp>>

\* the user opens a path (address bar, link, or router.push after a login)
Navigate ==
    /\ navPc \in {"idle", "loading", "settled"}
    /\ \E path \in Pages :
        /\ target' = path
        /\ pathname' = path
    /\ navPc' = "middleware"
    /\ redirects' = 0
    /\ SessionUnchanged
    /\ UNCHANGED exceptClient

\* saveAuth(token, user), called by the login form and the signup page
\* with the token and user of a successful response
saveAuth ==
    /\ navPc = "settled"
    /\ pathname \in {"/login", "/signup"}
    /\ \E token \in SessionTokens, user \in AuthUsers :
        /\ lsToken' = token
        /\ lsUser' = user
        /\ cookieToken' = token
        /\ cookieRole' = RoleCookie(user)
        /\ lastClientOp' = [op |-> "saveAuth", status |-> 0]
    /\ navPc' = "idle"
    /\ redirects' = 0
    /\ UNCHANGED <<pathname, target>>
    /\ UNCHANGED exceptClient

clearAuth ==
    /\ navPc \in {"idle", "settled"}
    /\ pathname # ""
    /\ lsToken' = NoToken
    /\ lsUser' = NoResult
    /\ cookieToken' = NoToken
    /\ cookieRole' = NoRole
    /\ lastClientOp' = [op |-> "clearAuth", status |-> 0]
    /\ navPc' = "idle"
    /\ redirects' = 0
    /\ UNCHANGED <<pathname, target>>
    /\ UNCHANGED exceptClient

\* the response of an API call made by the page being shown; the signup
\* page only posts to /api/auth/signup, which never answers 401
handleAuth ==
    /\ navPc \in {"idle", "loading", "settled"}
    /\ pathname \in {"/login", "/signup", "/dashboard/employee",
                     "/dashboard/committee"}
    /\ \E status \in ApiStatuses :
        /\ status = 401 => pathname # "/signup"
        /\ lastClientOp' = [op |-> "handleAuth", status |-> status]
        /\ IF status = 401
           THEN /\ lsToken' = NoToken
                /\ lsUser' = NoResult
                /\ cookieToken' = NoToken
                /\ cookieRole' = NoRole
                /\ IF ~StartsWithLogin(pathname)
                   THEN RedirectTo("/login")
                   ELSE UNCHANGED <<pathname, target, navPc, redirects>>
           ELSE /\ UNCHANGED <<lsToken, lsUser, cookieToken, cookieRole>>
                /\ navPc' = IF navPc = "loading" THEN "settled" ELSE navPc
                /\ UNCHANGED <<pathname, target, redirects>>
    /\ UNCHANGED exceptClient

\* the Next middleware, on the request of pathname
middleware ==
    /\ navPc = "middleware"
    /\ IF cookieToken = NoToken /\ ~isPublic(pathname)
       THEN RedirectTo("/login")
       ELSE IF cookieToken # NoToken /\ pathname = "/login"
       THEN RedirectTo(DashboardOf(cookieRole))
       ELSE /\ navPc' = "page"
            /\ UNCHANGED <<pathname, target, redirects>>
    /\ SessionUnchanged
    /\ UNCHANGED exceptClient

\* app/page.tsx
Home ==
    /\ navPc = "page"
    /\ pathname = "/"
    /\ RedirectTo("/login")
    /\ SessionUnchanged
    /\ UNCHANGED exceptClient

\* the login and signup pages render without an access check
PublicPage ==
    /\ navPc = "page"
    /\ isPublic(pathname)
    /\ navPc' = "settled"
    /\ UNCHANGED <<pathname, target, redirects>>
    /\ SessionUnchanged
    /\ UNCHANGED exceptClient

\* app/dashboard/page.tsx
Page ==
    /\ navPc = "page"
    /\ pathname = "/dashboard"
    /\ IF lsUser = NoResult
       THEN RedirectTo("/login")
       ELSE RedirectTo(DashboardOf(lsUser.user_role))
    /\ SessionUnchanged
    /\ UNCHANGED exceptClient

CommitteeAccess_Bounce(token, user) ==
    IF token = NoToken THEN "/login" ELSE "/dashboard/employee"

\* access control of the committee dashboard: where it sends the visitor,
\* "ready" when it renders
CommitteeAccess(token, user) ==
    IF token = NoToken THEN "/login"
    ELSE IF user = NoResult \/ user.user_role # "committee"
    THEN "/dashboard/employee"
    ELSE "ready"

\* access control of the employee dashboard
EmployeeAccess(token, user) ==
    IF token = NoToken THEN "/login"
    ELSE IF user = NoResult \/ user.user_role # "employee"
    THEN "/dashboard/committee"
    ELSE "ready"

\* a dashboard that passes its check renders and loads its data
Render(access) ==
    IF access = "ready"
    THEN /\ navPc' = "loading"
         /\ UNCHANGED <<pathname, target, redirects>>
    ELSE RedirectTo(access)

CommitteeDashboard ==
    /\ navPc = "page"
    /\ pathname = "/dashboard/committee"
    /\ Render(CommitteeAccess(lsToken, lsUser))
    /\ SessionUnchanged
    /\ UNCHANGED exceptClient

EmployeeDashboard ==
    /\ navPc = "page"
    /\ pathname = "/dashboard/employee"
    /\ Render(EmployeeAccess(lsToken, lsUser))
    /\ SessionUnchanged
    /\ UNCHANGED exceptClient

InitClient ==
    /\ IdleClient
    /\ IdleClassify
    /\ IdleRow
    /\ IdleSkills
    /\ IdleConfig
    /\ IdleServer
    /\ IdleHttp
    /\ IdleScroll

NextClient ==
    \/ Navigate
    \/ saveAuth
    \/ clearAuth
    \/ handleAuth
    \/ middleware
    \/ Home
    \/ PublicPage
    \/ Page
    \/ CommitteeDashboard
    \/ EmployeeDashboard

SpecClient == InitClient /\ [][NextClient]_vars

AllFourRemoved ==
    /\ lsToken = NoToken
    /\ lsUser = NoResult
    /\ cookieToken = NoToken
    /\ cookieRole = NoRole

\* C26: after any sequence of saveAuth, clearAuth and handled API
\* responses, the token cookie is present exactly when localStorage holds a
\* token, the role cookie is the user_role of the user in localStorage (and
\* absent when no user is stored), and a 401 response leaves all four
\* removed.
C26_SessionConsistency ==
    /\ (cookieToken # NoToken) <=> (lsToken # NoToken)
    /\ cookieRole = (IF lsUser = NoResult THEN NoRole ELSE lsUser.user_role)
    /\ ( /\ lastClientOp # NoResult
         /\ lastClientOp.op = "handleAuth"
         /\ lastClientOp.status = 401 ) => AllFourRemoved

\* a 401 answered to the employee dashboard of a signed-in employee
C26_Witness ==
    /\ lastClientOp # NoResult
    /\ lastClientOp.op = "handleAuth"
    /\ lastClientOp.status = 401
    /\ target = "/dashboard/employee"
    /\ pathname = "/login"
    /\ redirects = 1
    /\ AllFourRemoved

\* where a navigation is to end by the session that is stored
HomeOfSession ==
    IF lsToken = NoToken THEN "/login" ELSE DashboardOf(lsUser.user_role)

\* C27 as stated: a navigation to any path is redirected at most a fixed
\* number of times and ends on /login when no token is stored, otherwise on
\* the dashboard of the stored role.
C27_Original ==
    /\ redirects <= 3
    /\ navPc = "settled" => pathname = HomeOfSession

\* C27: a navigation to /, /login, /dashboard, /dashboard/employee or
\* /dashboard/committee is redirected at most three times and ends on
\* /login when no token is stored, otherwise on the dashboard of the stored
\* role; a navigation to /signup is not redirected and stays on /signup.
C27_NavigationSettles ==
    /\ redirects <= 3
    /\ target = "/signup" => (pathname = "/signup" /\ redirects = 0)
    /\ (navPc = "settled" /\ target # "/signup") => pathname = HomeOfSession
    /\ (navPc = "loading") => (lsToken # NoToken /\ pathname = HomeOfSession)

C27_Witness ==
    /\ navPc = "settled"
    /\ target = "/"
    /\ pathname = "/dashboard/committee"
    /\ redirects = 2
    /\ lsToken # NoToken

----------------------------------------------------------------------------
(* The success profiles section of the employee dashboard and the          *)
(* endpoint GET /employee/success-profile it pages through                 *)

MaxProfiles == 12
MaxScrolls == 8
DefaultPerPage == 10

\* getSuccessProfiles: every stored profile, whatever ?page= says; 404 for
\* an empty collection, 500 when the query throws
getSuccessProfiles(dbFails) ==
    IF dbFails THEN [status |-> 500, profiles |-> <<>>, perPage |-> 0]
    ELSE IF serverProfiles = 0
    THEN [status |-> 404, profiles |-> <<>>, perPage |-> 0]
    ELSE [status |-> 200, profiles |-> [i \in 1..serverProfiles |-> i],
          perPage |-> 0]

\* data.perPage || 10; the response carries no perPage (0 stands for it)
PerPageOf(data) == IF data.perPage = 0 THEN DefaultPerPage ELSE data.perPage

\* scrollRef.current is set once the table is rendered
ContainerExists(isLoading, message) == ~isLoading /\ message = ""

\* the scroll effect: it runs after a render in which hasMore or
\* loadingMore changed, removes the listener it added before and adds
\* handleScroll again when the container exists and a page may follow
ScrollEffect(wasListening, container) ==
    IF <<hasMore', loadingMore'>> # <<hasMore, loadingMore>>
    THEN container /\ hasMore' /\ ~loadingMore'
    ELSE wasListening

\* the section is mounted: the skeleton is rendered, fetchProfiles(1) is
\* called and the scroll effect finds no container
Mount ==
    /\ ~mounted
    /\ mounted' = TRUE
    /\ inFlight' = {1}
    /\ listening' = FALSE
    /\ UNCHANGED <<serverProfiles, profiles, loading, loadingMore, error, page,
                   hasMore, scrolls>>
    /\ UNCHANGED exceptScroll

\* fetchProfiles(pageNum) after its await: the response is handled
fetchProfiles ==
    \E pageNum \in inFlight, dbFails \in BOOLEAN :
        LET data == getSuccessProfiles(dbFails)
            newProfiles == data.profiles
            ok == data.status = 200
        IN  /\ inFlight' = inFlight \ {pageNum}
            /\ error' = IF ok THEN error ELSE "Failed to load success profiles"
            /\ profiles' = IF ~ok THEN profiles
                           ELSE IF pageNum = 1 THEN newProfiles
                           ELSE profiles \o newProfiles
            /\ hasMore' = IF ok /\ ( Len(newProfiles) = 0 \/
                                     Len(newProfiles) < PerPageOf(data) )
                          THEN FALSE ELSE hasMore
            /\ loading' = FALSE
            /\ loadingMore' = FALSE
            /\ listening' = ScrollEffect(listening, ContainerExists(FALSE, error'))
            /\ UNCHANGED <<serverProfiles, page, mounted, scrolls>>
            /\ UNCHANGED exceptScroll

\* the user scrolls the table to its bottom; handleScroll runs when it is
\* attached
handleScroll ==
    /\ mounted
    /\ ContainerExists(loading, error)
    /\ scrolls < MaxScrolls
    /\ scrolls' = scrolls + 1
    /\ IF listening
       THEN /\ loadingMore' = TRUE
            /\ page' = page + 1
            /\ inFlight' = inFlight \cup {page + 1}
            /\ UNCHANGED <<profiles, loading, error, hasMore>>
            /\ listening' = ScrollEffect(listening, TRUE)
       ELSE UNCHANGED <<profiles, loading, loadingMore, error, page, hasMore,
                        inFlight, listening>>
    /\ UNCHANGED <<serverProfiles, mounted>>
    /\ UNCHANGED exceptScroll

InitScroll ==
    /\ serverProfiles \in 0..MaxProfiles
    /\ profiles = <<>>
    /\ loading = TRUE
    /\ loadingMore = FALSE
    /\ error = ""
    /\ page = 1
    /\ hasMore = TRUE
    /\ inFlight = {}
    /\ mounted = FALSE
    /\ listening = FALSE
    /\ scrolls = 0
    /\ IdleClassify
    /\ IdleRow
    /\ IdleSkills
    /\ IdleConfig
    /\ IdleServer
    /\ IdleHttp
    /\ IdleClient

NextScroll == Mount \/ fetchProfiles \/ handleScroll

\* the effects of a mounted component run, every request is answered, and
\* the user keeps scrolling to the bottom
SpecScroll ==
    /\ InitScroll
    /\ [][NextScroll]_vars
    /\ WF_vars(Mount)
    /\ WF_vars(fetchProfiles)
    /\ WF_vars(handleScroll)

NoDuplicates ==
    \A i, j \in DOMAIN profiles : profiles[i] = profiles[j] => i = j

\* C28 as stated: for every number of stored profiles, repeated scrolls to
\* the bottom eventually set hasMore to false, no page is fetched after
\* that, and the displayed list never shows a profile twice.
C28_Original ==
    /\ <>(~hasMore)
    /\ [][~hasMore => inFlight' \subseteq inFlight]_vars
    /\ []NoDuplicates

====
